---- MODULE Spec2Model ----
(***************************************************************************)
(* Model of the room relay of Game/server/index.ts: connection admission,  *)
(* room / seat lifecycle, roster broadcast, the coalesced zones flush, the *)
(* heartbeat sweep and the room reaper.                                    *)
(*                                                                         *)
(* JavaScript strings that the server converts (trim, toUpperCase, slice,  *)
(* hex rendering) are sequences of one-character strings; literals that    *)
(* the server only copies or compares are TLA+ strings.                    *)
(***************************************************************************)
EXTENDS Integers, Sequences, FiniteSets, TLC

(* ------------------------------ bounds --------------------------------- *)

\* pushes the model lets one destination receive inside one flush window
MaxWindow == 2

\* join messages the model lets the server process in one run
MaxJoins == 3

(* ------------------------- values and inputs --------------------------- *)

\* the WebSocket objects the server accepts, in the order it accepts them
ConnOrder == <<"c1", "c2", "c3">>

Conns == {ConnOrder[i] : i \in 1..Len(ConnOrder)}

\* JavaScript null / an empty Map or WeakMap lookup
Null == [null |-> TRUE]

\* a `room`, `seat` or `name` field that is missing from the inbound JSON object
\* (no JavaScript string is this sequence: its element is not one character)
Undefined == <<"undefined">>

\* where the close handler's search for a spectated room finds none
\* (the empty string is never a key of the rooms Map)
NoRoom == <<>>

Min(a, b) == IF a < b THEN a ELSE b

Range(s) == {s[i] : i \in 1..Len(s)}

SeqRemove(s, e) == SelectSeq(s, LAMBDA v : v # e)

\* String(v || "")
StringOr(v) == IF v = Undefined THEN <<>> ELSE v

RECURSIVE TrimStart(_)
TrimStart(s) ==
    IF s = <<>> THEN s
    ELSE IF Head(s) = " " THEN TrimStart(Tail(s)) ELSE s

RECURSIVE TrimEnd(_)
TrimEnd(s) ==
    IF s = <<>> THEN s
    ELSE IF s[Len(s)] = " " THEN TrimEnd(SubSeq(s, 1, Len(s) - 1)) ELSE s

\* String.prototype.trim
Trim(s) == TrimEnd(TrimStart(s))

LowerChars == <<"a", "b", "c", "e", "o", "p", "r", "s", "t", "u", "x">>
UpperChars == <<"A", "B", "C", "E", "O", "P", "R", "S", "T", "U", "X">>

UpperChar(ch) ==
    IF \E i \in 1..Len(LowerChars) : LowerChars[i] = ch
    THEN UpperChars[CHOOSE i \in 1..Len(LowerChars) : LowerChars[i] = ch]
    ELSE ch

\* String.prototype.toUpperCase
ToUpperCase(s) == [i \in 1..Len(s) |-> UpperChar(s[i])]

\* String.prototype.slice(0, n)
Slice(s, n) == SubSeq(s, 1, Min(Len(s), n))

HexDigits == <<"0", "1", "2", "3", "4", "5", "6", "7", "8", "9",
               "a", "b", "c", "d", "e", "f">>

RECURSIVE ToHex(_)
\* Buffer.prototype.toString("hex")
ToHex(bytes) ==
    IF bytes = <<>> THEN <<>>
    ELSE <<HexDigits[(Head(bytes) \div 16) + 1],
           HexDigits[(Head(bytes) % 16) + 1]>> \o ToHex(Tail(bytes))

\* the byte strings randomBytes can return in the model
RandomBytes == {<<10>>, <<171>>}

\* every room id the model can hold: the hex ids, which clients may also name
RoomIds == {ToHex(b) : b \in RandomBytes}

\* the longest display name the server keeps
NameCap == 24

DefaultName == <<"P", "l", "a", "y", "e", "r">>

LongName == [i \in 1..(NameCap + 1) |-> "n"]

SeatAuto == <<"A", "U", "T", "O">>

SeatSpectator == <<"S", "P", "E", "C", "T", "A", "T", "O", "R">>

\* the inbound join messages of the model: the `room`, `seat` and `name` fields
JoinMessages ==
    { [room |-> Undefined,               seat |-> <<"A">>,                name |-> Undefined],
      [room |-> <<" ">>,                 seat |-> <<"A">>,                name |-> <<" ">>],
      [room |-> <<"0", "a">>,            seat |-> <<"A">>,                name |-> Undefined],
      [room |-> <<" ", "0", "a", " ">>,  seat |-> <<"b">>,                name |-> <<" ">>],
      [room |-> <<"0", "a">>,            seat |-> <<"a", "u", "t", "o">>, name |-> Undefined],
      [room |-> <<"0", "a">>,            seat |-> SeatSpectator,          name |-> <<" ", "B", "o">>],
      [room |-> <<"a", "b">>,            seat |-> <<"a">>,                name |-> LongName],
      [room |-> <<"a", "b">>,            seat |-> <<"x">>,                name |-> <<"B", "o", " ">>],
      [room |-> <<"a", "b">>,            seat |-> Undefined,              name |-> Undefined] }

\* the join messages of the runs that follow the registry
RegistryJoinMessages ==
    {m \in JoinMessages :
        \/ m.room = <<"0", "a">> /\ m.seat \in {<<"A">>, <<"a", "u", "t", "o">>}
        \/ m.room = <<"a", "b">> /\ m.seat \in {<<"a">>, <<"x">>}}

\* the join messages of the runs that follow what is sent
SendJoinMessages ==
    {m \in JoinMessages : \/ m.room = <<" ">>
                          \/ m.room = <<"0", "a">> /\ m.seat \in {<<"A">>, SeatSpectator}}

\* the join messages of the runs that follow the relay
RelayJoinMessages ==
    {m \in JoinMessages : \/ m.room = <<"0", "a">>
                          \/ m.room = <<"a", "b">> /\ m.seat = <<"a">>}

\* the join messages of the runs that follow the heartbeat
LiveJoinMessages ==
    {m \in JoinMessages : m.room = <<"0", "a">> /\ m.seat # <<"A">>}

\* Math.random().toString(36).slice(2, 7): the n-th draw of a run
RandomSuffix(n) == "r" \o ToString(n)

\* the `zones` and `seq` fields of an inbound zones message, as their JSON text
\* (the server copies them without looking inside; seq may be missing)
ZonesInputs == {[zones |-> "z1", seq |-> "undefined"], [zones |-> "z2", seq |-> "1"]}

\* bufferedAmount above which a droppable send is skipped
CongestionThreshold == 256 * 1024

\* the values of ws.bufferedAmount the model distinguishes
BufferedAmounts == {0, CongestionThreshold, CongestionThreshold + 1}

\* ws.bufferedAmount of every socket while a message or close handler runs
BufferedChoices == {[c \in Conns |-> 0], [c \in Conns |-> CongestionThreshold + 1]}

\* no socket has anything buffered
Uncongested == [c \in Conns |-> 0]

\* inbound frames the router has no branch for: text JSON.parse rejects, a JSON
\* number, string or array (their `type` is undefined), an object of another type
IgnoredFrames == {"unparsable", "number", "string", "array", "othertype"}

\* inbound frames on which an expression of the handler throws: the JSON text
\* null (msg.type of null), and a join whose room is an object that has no
\* callable toString, such as {"toString": 0} (String(msg.room || ""))
ThrowingFrames == {"null", "badroom"}

\* how the message handler ends for such a frame: it returns ("ignored"), or a
\* TypeError leaves it ("uncaught": nothing in the server catches it)
FrameOutcome(kind) ==
    IF kind = "unparsable" THEN "ignored"
    ELSE IF kind = "null" THEN "uncaught"
    ELSE IF kind = "badroom" THEN "uncaught"
    ELSE "ignored"

(* ------------------------------- state --------------------------------- *)

VARIABLES
    readyState,      \* ws.readyState of each connection ("NONE": not yet accepted)
    isAlive,         \* ws.isAlive of each connection
    me,              \* the closure variable `me` of each connection
    rooms,           \* the rooms Map: room id -> Room
    roomOrder,       \* the iteration (insertion) order of the rooms Map
    latestZones,     \* the latestZones WeakMap
    ticking,         \* the ticking WeakSet = destinations with an armed flush timer
    last,            \* the latest event the server handled, and how it ended
    lastRoster,      \* per open connection and room, the latest roster sent to it
    winCount,        \* per destination, pushes since its flush timer was armed
    winLast,         \* per destination, the payload of the latest push of the window
    unanswered,      \* per connection, sweeps that probed it since its last pong
    joins,           \* join messages processed so far
    created,         \* the room ids the create branch has replied with so far
    timers           \* per destination, the setTimeout callbacks of scheduleFlush not yet run

vars == <<readyState, isAlive, me, rooms, roomOrder, latestZones,
          ticking, last, lastRoster, winCount, winLast, unanswered, joins,
          created, timers>>

\* a Room object before any seat or spectator is set
EmptyRoom == [A |-> Null, B |-> Null, spectators |-> <<>>]

\* OtherSeat that answers the sender's own seat
OtherSeat_Same(seat) == seat

\* const otherSeat: Seat = me.seat === "A" ? "B" : "A"
OtherSeat(seat) == IF seat = "A" THEN "B" ELSE "A"

(* ------------------------------ helpers -------------------------------- *)

\* Send that skips a congested socket whether or not the frame may be dropped
Send_DropsAny(out, rs, buffered, ws, msg, allowDrop) ==
    IF rs[ws] # "OPEN" THEN out
    ELSE IF buffered[ws] > CongestionThreshold THEN out
    ELSE Append(out, [to |-> ws, msg |-> msg])

\* Send without the readyState test
Send_IgnoresReadyState(out, rs, buffered, ws, msg, allowDrop) ==
    IF allowDrop /\ buffered[ws] > CongestionThreshold THEN out
    ELSE Append(out, [to |-> ws, msg |-> msg])

\* Send that also skips a droppable frame while any other socket is congested
Send_AnyCongested(out, rs, buffered, ws, msg, allowDrop) ==
    IF rs[ws] # "OPEN" THEN out
    ELSE IF allowDrop /\ \E c \in Conns : buffered[c] > CongestionThreshold THEN out
    ELSE Append(out, [to |-> ws, msg |-> msg])

\* send(ws, msg, allowDrop): `out` is the list of frames already sent in this
\* step, rs the readyState and buffered the bufferedAmount of every socket while
\* the handler runs
Send(out, rs, buffered, ws, msg, allowDrop) ==
    IF rs[ws] # "OPEN" THEN out
    ELSE IF allowDrop /\ buffered[ws] > CongestionThreshold THEN out
    ELSE Append(out, [to |-> ws, msg |-> msg])

RECURSIVE SendAll(_, _, _, _, _)
\* a loop of send(ws, msg, false) over the sockets of `targets`, in order
SendAll(out, rs, buffered, targets, msg) ==
    IF targets = <<>> THEN out
    ELSE SendAll(Send(out, rs, buffered, Head(targets), msg, FALSE),
                 rs, buffered, Tail(targets), msg)

\* the roster array that broadcastRoom composes for room object r
Roster(r) ==
    LET entry(p) == [id |-> p.id, name |-> p.name, seat |-> p.seat]
    IN  (IF r.A # Null THEN <<entry(r.A)>> ELSE <<>>) \o
        (IF r.B # Null THEN <<entry(r.B)>> ELSE <<>>)

\* RosterTargets without the loop over the spectators
RosterTargets_NoSpectators(r) ==
    (IF r.A # Null THEN <<r.A.ws>> ELSE <<>>) \o
    (IF r.B # Null THEN <<r.B.ws>> ELSE <<>>)

\* the sockets broadcastRoom sends to, in its order: seat A, seat B, spectators
RosterTargets(r) ==
    (IF r.A # Null THEN <<r.A.ws>> ELSE <<>>) \o
    (IF r.B # Null THEN <<r.B.ws>> ELSE <<>>) \o r.spectators

\* broadcastRoom(roomId) over the rooms Map rms
BroadcastRoom(out, rs, buffered, rms, roomId) ==
    IF roomId \notin DOMAIN rms THEN out
    ELSE SendAll(out, rs, buffered, RosterTargets(rms[roomId]),
                 [type |-> "roster", room |-> roomId, roster |-> Roster(rms[roomId])])

\* rooms.set(id, room) on the Map rms
MapSet(rms, id, room) == [k \in (DOMAIN rms) \cup {id} |-> IF k = id THEN room ELSE rms[k]]

\* the iteration order after rooms.set(id, ...)
OrderSet(rms, ord, id) == IF id \in DOMAIN rms THEN ord ELSE Append(ord, id)

\* the latest roster each connection holds per room, after the frames `out`
NoteRosters(lr, out) ==
    LET hits(c) == {i \in 1..Len(out) : out[i].to = c /\ out[i].msg.type = "roster"}
        latest(c) == out[CHOOSE i \in hits(c) : \A j \in hits(c) : j <= i].msg
    IN  [c \in Conns |-> IF hits(c) = {} THEN lr[c]
                         ELSE [lr[c] EXCEPT ![latest(c).room] =
                                            [sent |-> TRUE, roster |-> latest(c).roster]]]

\* no roster received yet
NoRoster == [sent |-> FALSE, roster |-> <<>>]

NoRosters == [r \in RoomIds |-> NoRoster]

(* ------------------------------- Init ---------------------------------- *)

Init ==
    /\ readyState = [c \in Conns |-> "NONE"]
    /\ isAlive = [c \in Conns |-> FALSE]
    /\ me = [c \in Conns |-> Null]
    /\ rooms = <<>>
    /\ roomOrder = <<>>
    /\ latestZones = [c \in Conns |-> Null]
    /\ ticking = {}
    /\ last = [op |-> "init"]
    /\ lastRoster = [c \in Conns |-> NoRosters]
    /\ winCount = [c \in Conns |-> 0]
    /\ winLast = [c \in Conns |-> Null]
    /\ unanswered = [c \in Conns |-> 0]
    /\ joins = 0
    /\ created = {}
    /\ timers = [c \in Conns |-> 0]

(* ------------------------------ actions -------------------------------- *)

\* the server process runs, and its handlers and timers with it, until an
\* uncaught exception ends it
Running == last.op # "uncaught"

\* the frames the connection handler sends: the socket is OPEN when it runs
ConnectSends(c, buffered) ==
    Send(<<>>, [readyState EXCEPT ![c] = "OPEN"], buffered, c, [type |-> "hello"], FALSE)

\* wss.on("connection"): a new socket is accepted, marked alive and greeted
Connect(c) ==
    /\ Running
    /\ readyState[c] = "NONE"
    /\ c = ConnOrder[Cardinality({d \in Conns : readyState[d] # "NONE"}) + 1]
    /\ readyState' = [readyState EXCEPT ![c] = "OPEN"]
    /\ isAlive' = [isAlive EXCEPT ![c] = TRUE]
    /\ last' = [op |-> "connect", c |-> c]
    /\ UNCHANGED <<me, rooms, roomOrder, latestZones, ticking, lastRoster,
                   winCount, winLast, unanswered, joins, created, timers>>

\* ws.on("pong"); me.alive is true from the join on, so setting it changes nothing
Pong(c) ==
    /\ Running
    /\ readyState[c] = "OPEN"
    /\ isAlive' = [isAlive EXCEPT ![c] = TRUE]
    /\ me' = [me EXCEPT ![c] = IF me[c] # Null THEN [me[c] EXCEPT !.alive = TRUE]
                                ELSE Null]
    /\ unanswered' = [unanswered EXCEPT ![c] = 0]
    /\ last' = [op |-> "pong", c |-> c]
    /\ UNCHANGED <<readyState, rooms, roomOrder, latestZones, ticking, lastRoster,
                   winCount, winLast, joins, created, timers>>

\* message handler on a frame of IgnoredFrames or ThrowingFrames; an uncaught
\* exception ends the process, and with it every socket the server holds
OtherFrame(c, kind) ==
    /\ Running
    /\ readyState[c] = "OPEN"
    /\ readyState' = IF FrameOutcome(kind) = "uncaught"
                     THEN [d \in Conns |-> IF readyState[d] = "NONE" THEN "NONE"
                                           ELSE "CLOSED"]
                     ELSE readyState
    /\ last' = [op |-> FrameOutcome(kind), c |-> c, kind |-> kind]
    /\ UNCHANGED <<isAlive, me, rooms, roomOrder, latestZones, ticking,
                   lastRoster, winCount, winLast, unanswered, joins, created, timers>>

\* generateUniqueRoomId: the ids the resampling loop can return
GenerateUniqueRoomId == {ToHex(b) : b \in RandomBytes} \ DOMAIN rooms

\* the frames the create branch sends
CreateSends(c, roomId, buffered) ==
    Send(<<>>, readyState, buffered, c, [type |-> "created", room |-> roomId], FALSE)

\* message handler, type "create"
Create(c) ==
    /\ Running
    /\ readyState[c] = "OPEN"
    /\ \E roomId \in GenerateUniqueRoomId :
          /\ rooms' = IF roomId \notin DOMAIN rooms THEN MapSet(rooms, roomId, EmptyRoom)
                      ELSE rooms
          /\ roomOrder' = OrderSet(rooms, roomOrder, roomId)
          /\ created' = created \cup {roomId}
          /\ last' = [op |-> "create", c |-> c, room |-> roomId]
    /\ UNCHANGED <<readyState, isAlive, me, latestZones, ticking, lastRoster,
                   winCount, winLast, unanswered, joins, timers>>

\* the display name the join handler derives from msg.name
JoinName(rawName) ==
    LET t == Trim(StringOr(rawName))
    IN  Slice(IF t = <<>> THEN DefaultName ELSE t, NameCap)

\* pickAuto with the two seats tried in the other order
PickAuto_PrefersB(r) == IF r.B = Null THEN "B" ELSE IF r.A = Null THEN "A" ELSE "spectator"

\* pickAuto for room object r
PickAuto(r) == IF r.A = Null THEN "A" ELSE IF r.B = Null THEN "B" ELSE "spectator"

\* PickSeat that answers an explicit request with the other seat
PickSeat_Swapped(r, requested) ==
    IF requested = <<"A">> THEN "B"
    ELSE IF requested = <<"B">> THEN "A"
    ELSE IF requested = SeatAuto THEN PickAuto(r)
    ELSE "spectator"

\* the seat the join handler settles on for the upper-cased request
PickSeat(r, requested) ==
    IF requested = <<"A">> THEN "A"
    ELSE IF requested = <<"B">> THEN "B"
    ELSE IF requested = SeatAuto THEN PickAuto(r)
    ELSE "spectator"

\* AddSpectator that leaves the Set as it is
AddSpectator_Never(r, ws) == r

\* Set.prototype.add on the spectators of room object r
AddSpectator(r, ws) ==
    IF ws \in Range(r.spectators) THEN r
    ELSE [r EXCEPT !.spectators = Append(r.spectators, ws)]

\* `Seat ${seat} is occupied`
OccupiedReason(seat) == "Seat " \o seat \o " is occupied"

\* the room id and the seat request the join handler reads from a message
JoinRoomId(msg) == Trim(StringOr(msg.room))

JoinRequested(msg) == ToUpperCase(StringOr(msg.seat))

\* the room object the join handler works on: rooms.get(roomId) || {}
JoinRoom(roomId) == IF roomId \in DOMAIN rooms THEN rooms[roomId] ELSE EmptyRoom

\* the seat the join handler settles on for message msg
JoinSeat(msg) == PickSeat(JoinRoom(JoinRoomId(msg)), JoinRequested(msg))

\* JoinResult without the test of the requested seat: a join takes the seat it asks for
JoinResult_NoOccupiedCheck(msg) ==
    IF JoinRoomId(msg) = <<>> THEN "required"
    ELSE IF JoinSeat(msg) = "spectator" THEN "spectator"
    ELSE "seated"

\* JoinResult that treats a room id missing from the registry like a blank one
JoinResult_RejectsMissingRoom(msg) ==
    IF JoinRoomId(msg) = <<>> \/ JoinRoomId(msg) \notin DOMAIN rooms THEN "required"
    ELSE IF JoinSeat(msg) = "spectator" THEN "spectator"
    ELSE IF JoinRoom(JoinRoomId(msg))[JoinSeat(msg)] # Null THEN "occupied"
    ELSE "seated"

\* JoinResult without the test of the room id
JoinResult_NoRoomCheck(msg) ==
    IF JoinSeat(msg) = "spectator" THEN "spectator"
    ELSE IF JoinRoom(JoinRoomId(msg))[JoinSeat(msg)] # Null THEN "occupied"
    ELSE "seated"

\* how the join handler ends for message msg: "required" (no room id), "spectator",
\* "occupied" (the explicit seat is taken) or "seated"
JoinResult(msg) ==
    IF JoinRoomId(msg) = <<>> THEN "required"
    ELSE IF JoinSeat(msg) = "spectator" THEN "spectator"
    ELSE IF JoinRoom(JoinRoomId(msg))[JoinSeat(msg)] # Null THEN "occupied"
    ELSE "seated"

\* the Player object a seated join builds
JoinPlayer(c, msg, suffix) ==
    [id |-> "Player-" \o suffix, ws |-> c, room |-> JoinRoomId(msg),
     seat |-> JoinSeat(msg), name |-> JoinName(msg.name), alive |-> TRUE]

\* the rooms Map after the join handler
JoinRooms(c, msg, suffix) ==
    LET roomId == JoinRoomId(msg)
        room   == JoinRoom(roomId)
        result == JoinResult(msg)
    IN  IF result = "required" THEN rooms
        ELSE IF result = "spectator" THEN MapSet(rooms, roomId, AddSpectator(room, c))
        ELSE IF result = "occupied" THEN MapSet(rooms, roomId, room)
        ELSE MapSet(rooms, roomId,
                    [room EXCEPT ![JoinSeat(msg)] = JoinPlayer(c, msg, suffix)])

\* JoinMe with `me` assigned before the occupied-seat return
JoinMe_BeforeSeatCheck(c, msg, suffix) ==
    IF JoinResult(msg) \in {"seated", "occupied"}
    THEN [me EXCEPT ![c] = JoinPlayer(c, msg, suffix)]
    ELSE me

\* the closure variables `me` after the join handler of connection c
JoinMe(c, msg, suffix) ==
    IF JoinResult(msg) = "seated" THEN [me EXCEPT ![c] = JoinPlayer(c, msg, suffix)]
    ELSE me

\* the reply the join handler sends to the requester
JoinReply(c, msg, suffix) ==
    LET result == JoinResult(msg)
    IN  IF result = "required" THEN [type |-> "error", reason |-> "room required"]
        ELSE IF result = "spectator"
        THEN [type |-> "joined", room |-> JoinRoomId(msg), id |-> "Spectator-" \o suffix,
              role |-> "spectator", name |-> JoinName(msg.name)]
        ELSE IF result = "occupied"
        THEN [type |-> "error", reason |-> OccupiedReason(JoinSeat(msg))]
        ELSE [type |-> "joined", room |-> JoinRoomId(msg), id |-> "Player-" \o suffix,
              seat |-> JoinSeat(msg), name |-> JoinName(msg.name)]

\* JoinSends with the roster broadcast placed before the occupied-seat return
JoinSends_BroadcastOnReject(c, msg, suffix, buffered) ==
    LET reply == Send(<<>>, readyState, buffered, c, JoinReply(c, msg, suffix), FALSE)
    IN  IF JoinResult(msg) \in {"spectator", "seated", "occupied"}
        THEN BroadcastRoom(reply, readyState, buffered, JoinRooms(c, msg, suffix),
                           JoinRoomId(msg))
        ELSE reply

\* JoinSends with the roster broadcast ahead of the reply
JoinSends_RosterFirst(c, msg, suffix, buffered) ==
    LET rosters == IF JoinResult(msg) \in {"spectator", "seated"}
                   THEN BroadcastRoom(<<>>, readyState, buffered,
                                      JoinRooms(c, msg, suffix), JoinRoomId(msg))
                   ELSE <<>>
    IN  Send(rosters, readyState, buffered, c, JoinReply(c, msg, suffix), FALSE)

\* the frames the join handler sends, in order: the reply, then the roster broadcast
JoinSends(c, msg, suffix, buffered) ==
    LET reply == Send(<<>>, readyState, buffered, c, JoinReply(c, msg, suffix), FALSE)
    IN  IF JoinResult(msg) \in {"spectator", "seated"}
        THEN BroadcastRoom(reply, readyState, buffered, JoinRooms(c, msg, suffix),
                           JoinRoomId(msg))
        ELSE reply

\* message handler, type "join"
Join(c, msg, suffix, buffered) ==
    /\ Running
    /\ readyState[c] = "OPEN"
    /\ joins < MaxJoins
    /\ joins' = joins + 1
    /\ rooms' = JoinRooms(c, msg, suffix)
    /\ roomOrder' = IF JoinResult(msg) = "required" THEN roomOrder
                    ELSE OrderSet(rooms, roomOrder, JoinRoomId(msg))
    /\ me' = JoinMe(c, msg, suffix)
    /\ lastRoster' = NoteRosters(lastRoster, JoinSends(c, msg, suffix, buffered))
    /\ last' = [op |-> "join", c |-> c, room |-> JoinRoomId(msg),
                requested |-> JoinRequested(msg), result |-> JoinResult(msg),
                existed |-> JoinRoomId(msg) \in DOMAIN rooms]
    /\ UNCHANGED <<readyState, isAlive, latestZones, ticking, winCount, winLast,
                   unanswered, created, timers>>

\* the sockets the zones handler pushes to for sender record p in room object r,
\* in its order: the opposite seat, then the spectators
PushTargets(r, p) ==
    (IF r[OtherSeat(p.seat)] # Null THEN <<r[OtherSeat(p.seat)].ws>> ELSE <<>>)
        \o r.spectators

\* the destinations of a zones message from connection c ({} when it is ignored)
ZonesDests(c) ==
    IF me[c] = Null \/ me[c].room \notin DOMAIN rooms THEN {}
    ELSE Range(PushTargets(rooms[me[c].room], me[c]))

\* the payload the zones handler builds for connection c
ZonesPayload(c, input) ==
    [type |-> "zones", fromSeat |-> me[c].seat, zones |-> input.zones, seq |-> input.seq]

\* PushSlots that keeps a payload already waiting in the slot
PushSlots_KeepFirst(slots, dests, payload) ==
    [d \in Conns |-> IF d \in dests /\ slots[d] = Null THEN payload ELSE slots[d]]

\* PushSlots that keeps one waiting payload per sending seat: a payload of the
\* other seat is not replaced
PushSlots_KeepOtherSeat(slots, dests, payload) ==
    [d \in Conns |-> IF d \in dests /\ (slots[d] = Null \/ slots[d].fromSeat = payload.fromSeat)
                     THEN payload ELSE slots[d]]

\* push(sock) for every sock of dests: latestZones.set(sock, payload)
PushSlots(slots, dests, payload) ==
    [d \in Conns |-> IF d \in dests THEN payload ELSE slots[d]]

\* scheduleFlush(to) for every destination of dests: arm the timers not yet armed
ScheduleFlush(armed, dests) == armed \cup dests

\* ArmTimers that sets a timer on every push
ArmTimers_OnEveryPush(tm, armed, dests) ==
    [d \in Conns |-> IF d \in dests THEN tm[d] + 1 ELSE tm[d]]

\* the pending setTimeout callbacks after scheduleFlush(to) for every destination
\* of dests: one more for each destination that had none armed
ArmTimers(tm, armed, dests) ==
    [d \in Conns |-> IF d \in dests /\ d \notin armed THEN tm[d] + 1 ELSE tm[d]]

\* the destinations of a zones message from connection c whose slot holds a
\* payload of the other seat when the message arrives
Overwritten(c) ==
    {d \in ZonesDests(c) : latestZones[d] # Null /\ latestZones[d].fromSeat # me[c].seat}

\* message handler, type "zones"
Zones(c, input) ==
    /\ Running
    /\ readyState[c] = "OPEN"
    /\ last' = [op |-> "zones", c |-> c, over |-> Overwritten(c)]
    /\ IF me[c] = Null \/ me[c].room \notin DOMAIN rooms
       THEN UNCHANGED <<latestZones, ticking, winCount, winLast, timers>>
       ELSE LET payload == ZonesPayload(c, input)
                dests   == ZonesDests(c)
            IN  /\ \A d \in dests : winCount[d] < MaxWindow
                /\ latestZones' = PushSlots(latestZones, dests, payload)
                /\ ticking' = ScheduleFlush(ticking, dests)
                /\ timers' = ArmTimers(timers, ticking, dests)
                /\ winCount' = [d \in Conns |-> IF d \in dests THEN winCount[d] + 1
                                                ELSE winCount[d]]
                /\ winLast' = [d \in Conns |-> IF d \in dests THEN payload
                                               ELSE winLast[d]]
    /\ UNCHANGED <<readyState, isAlive, me, rooms, roomOrder, lastRoster, unanswered,
                   joins, created>>

\* FlushSends that sends the payload a second time
FlushSends_Twice(to, amount) ==
    IF latestZones[to] = Null THEN <<>>
    ELSE Send(Send(<<>>, readyState, [c \in Conns |-> amount], to, latestZones[to], TRUE),
              readyState, [c \in Conns |-> amount], to, latestZones[to], TRUE)

\* the frames the flush callback sends; amount is to.bufferedAmount
FlushSends(to, amount) ==
    IF latestZones[to] = Null THEN <<>>
    ELSE Send(<<>>, readyState, [c \in Conns |-> amount], to, latestZones[to], TRUE)

\* the setTimeout callback of scheduleFlush(to)
Flush(to, amount) ==
    /\ Running
    /\ timers[to] > 0
    /\ timers' = [timers EXCEPT ![to] = @ - 1]
    /\ ticking' = ticking \ {to}
    /\ latestZones' = [latestZones EXCEPT ![to] = Null]
    /\ winCount' = [winCount EXCEPT ![to] = 0]
    /\ winLast' = [winLast EXCEPT ![to] = Null]
    /\ last' = [op |-> "flush", c |-> to, delivered |-> FlushSends(to, amount) # <<>>,
                pushes |-> winCount[to]]
    /\ UNCHANGED <<readyState, isAlive, me, rooms, roomOrder, lastRoster, unanswered,
                   joins, created>>

\* the first room, in Map order, whose spectators hold ws (NoRoom if none)
FirstSpectatedRoom(ws) ==
    LET hits == {i \in 1..Len(roomOrder) : ws \in Range(rooms[roomOrder[i]].spectators)}
    IN  IF hits = {} THEN NoRoom
        ELSE roomOrder[CHOOSE i \in hits : \A j \in hits : i <= j]

\* the rooms Map after the close handler of connection c
CloseRooms(c) ==
    IF me[c] = Null
    THEN LET id == FirstSpectatedRoom(c)
         IN  IF id = NoRoom THEN rooms
             ELSE [rooms EXCEPT ![id].spectators = SeqRemove(@, c)]
    ELSE IF me[c].room \notin DOMAIN rooms THEN rooms
    ELSE LET room == rooms[me[c].room]
         IN  IF room[me[c].seat] # Null /\ room[me[c].seat].id = me[c].id
             THEN [rooms EXCEPT ![me[c].room][me[c].seat] = Null]
             ELSE rooms

\* the room whose roster the close handler of connection c broadcasts (NoRoom if none)
CloseBroadcast(c) ==
    IF me[c] = Null THEN FirstSpectatedRoom(c)
    ELSE IF me[c].room \notin DOMAIN rooms THEN NoRoom
    ELSE me[c].room

\* the frames the close handler sends: the socket is CLOSED when it runs
CloseSends(c, buffered) ==
    IF CloseBroadcast(c) = NoRoom THEN <<>>
    ELSE BroadcastRoom(<<>>, [readyState EXCEPT ![c] = "CLOSED"], buffered,
                       CloseRooms(c), CloseBroadcast(c))

\* ws.on("close"): the peer closed, the socket failed, or terminate() completed
Close(c, buffered) ==
    /\ Running
    /\ readyState[c] \in {"OPEN", "CLOSING"}
    /\ readyState' = [readyState EXCEPT ![c] = "CLOSED"]
    /\ rooms' = CloseRooms(c)
    /\ lastRoster' = NoteRosters([lastRoster EXCEPT ![c] = NoRosters],
                                 CloseSends(c, buffered))
    /\ last' = [op |-> "close", c |-> c]
    /\ UNCHANGED <<isAlive, me, roomOrder, latestZones, ticking, winCount, winLast,
                   unanswered, joins, created, timers>>

\* wss.clients: the sockets whose close event has not fired yet
Clients == {c \in Conns : readyState[c] \in {"OPEN", "CLOSING"}}

\* Unconfirmed of a sweep whose isAlive test never matches
Unconfirmed_Never == {}

\* Unconfirmed of a sweep that does not look at isAlive
Unconfirmed_All == Clients

\* the sockets the heartbeat sweep terminates
Unconfirmed == {c \in Clients : isAlive[c] = FALSE}

\* the heartbeat interval callback: terminate unconfirmed sockets, probe the others
Heartbeat ==
    /\ Running
    /\ readyState' = [c \in Conns |-> IF c \in Unconfirmed THEN "CLOSING"
                                      ELSE readyState[c]]
    /\ isAlive' = [c \in Conns |-> IF c \in Clients THEN FALSE ELSE isAlive[c]]
    /\ unanswered' = [c \in Conns |-> IF c \in Clients THEN Min(unanswered[c] + 1, 2)
                                      ELSE unanswered[c]]
    /\ last' = [op |-> "heartbeat"]
    /\ UNCHANGED <<me, rooms, roomOrder, latestZones, ticking, lastRoster, winCount,
                   winLast, joins, created, timers>>

\* IsEmptyRoom without the spectator test
IsEmptyRoom_IgnoresSpectators(r) == ~(r.A # Null \/ r.B # Null)

\* IsEmptyRoom that looks at the spectators only
IsEmptyRoom_IgnoresPlayers(r) ==
    LET hasSpectators == Len(r.spectators) # 0
    IN  ~hasSpectators

\* the reaper's test of one room object
IsEmptyRoom(r) ==
    LET hasPlayers    == r.A # Null \/ r.B # Null
        hasSpectators == Len(r.spectators) # 0
    IN  ~hasPlayers /\ ~hasSpectators

\* the room cleanup interval callback
Reap ==
    /\ Running
    /\ rooms' = [id \in {k \in DOMAIN rooms : ~IsEmptyRoom(rooms[k])} |-> rooms[id]]
    /\ roomOrder' = SelectSeq(roomOrder, LAMBDA id : ~IsEmptyRoom(rooms[id]))
    /\ last' = [op |-> "reap"]
    /\ UNCHANGED <<readyState, isAlive, me, latestZones, ticking, lastRoster,
                   winCount, winLast, unanswered, joins, created, timers>>

Next ==
    \/ \E c \in Conns : Connect(c)
    \/ \E c \in Conns : Pong(c)
    \/ \E c \in Conns, kind \in IgnoredFrames \cup ThrowingFrames : OtherFrame(c, kind)
    \/ \E c \in Conns : Create(c)
    \/ \E c \in Conns, msg \in JoinMessages, buffered \in BufferedChoices :
          Join(c, msg, RandomSuffix(joins), buffered)
    \/ \E c \in Conns, input \in ZonesInputs : Zones(c, input)
    \/ \E c \in Conns, amount \in BufferedAmounts : Flush(c, amount)
    \/ \E c \in Conns, buffered \in BufferedChoices : Close(c, buffered)
    \/ Heartbeat
    \/ Reap

Spec == Init /\ [][Next]_vars

\* rooms and seats alone: the handlers that move connections in and out of rooms
NextRooms ==
    \/ \E c \in Conns : Connect(c)
    \/ \E c \in Conns, msg \in JoinMessages, buffered \in BufferedChoices :
          Join(c, msg, RandomSuffix(joins), buffered)
    \/ \E c \in Conns, buffered \in BufferedChoices : Close(c, buffered)
    \/ Reap

SpecRooms == Init /\ [][NextRooms]_vars

\* the registry alone: rooms made by create and by join, emptied by close, reaped
NextRegistry ==
    \/ \E c \in Conns : Connect(c)
    \/ \E c \in Conns : Create(c)
    \/ \E c \in Conns, msg \in RegistryJoinMessages, buffered \in BufferedChoices :
          Join(c, msg, RandomSuffix(joins), buffered)
    \/ \E c \in Conns, buffered \in BufferedChoices : Close(c, buffered)
    \/ Reap

SpecRegistry == Init /\ [][NextRegistry]_vars

\* every handler that sends: replies, rosters and flushed zones
NextSend ==
    \/ \E c \in Conns : Connect(c)
    \/ \E c \in Conns : Create(c)
    \/ \E c \in Conns, msg \in SendJoinMessages, buffered \in BufferedChoices :
          Join(c, msg, RandomSuffix(joins), buffered)
    \/ \E c \in Conns, input \in ZonesInputs : Zones(c, input)
    \/ \E c \in Conns, amount \in BufferedAmounts : Flush(c, amount)

SpecSend == Init /\ [][NextSend]_vars

\* the frames outside the create, join and zones branches, among seated and
\* watching connections
NextFrames ==
    \/ \E c \in Conns : Connect(c)
    \/ \E c \in Conns, msg \in LiveJoinMessages, buffered \in BufferedChoices :
          Join(c, msg, RandomSuffix(joins), buffered)
    \/ \E c \in Conns, kind \in IgnoredFrames \cup ThrowingFrames : OtherFrame(c, kind)
    \/ \E c \in Conns, buffered \in BufferedChoices : Close(c, buffered)

SpecFrames == Init /\ [][NextFrames]_vars

\* the relay alone: membership changes, zones messages and the flush timers
NextRelay ==
    \/ \E c \in Conns : Connect(c)
    \/ \E c \in Conns, msg \in RelayJoinMessages, buffered \in BufferedChoices :
          Join(c, msg, RandomSuffix(joins), buffered)
    \/ \E c \in Conns, input \in ZonesInputs : Zones(c, input)
    \/ \E c \in Conns, amount \in BufferedAmounts : Flush(c, amount)
    \/ \E c \in Conns, buffered \in BufferedChoices : Close(c, buffered)

SpecRelay == Init /\ [][NextRelay]_vars

\* liveness alone: membership changes, pongs and the heartbeat sweep
NextLive ==
    \/ \E c \in Conns : Connect(c)
    \/ \E c \in Conns, msg \in LiveJoinMessages, buffered \in BufferedChoices :
          Join(c, msg, RandomSuffix(joins), buffered)
    \/ \E c \in Conns : Pong(c)
    \/ \E c \in Conns, buffered \in BufferedChoices : Close(c, buffered)
    \/ Heartbeat

SpecLive == Init /\ [][NextLive]_vars

(* ------------------------------ claims --------------------------------- *)

Seats == {"A", "B"}

\* the occupant of seat s of room r in the rooms Map rms (Null: free, or no such room)
SeatAt(rms, r, s) == IF r \in DOMAIN rms THEN rms[r][s] ELSE Null

\* the spectators of room r in the rooms Map rms
SpectatorsAt(rms, r) == IF r \in DOMAIN rms THEN Range(rms[r].spectators) ELSE {}

\* the connections that hold a seat of room r in the rooms Map rms
SeatedAt(rms, r) == {SeatAt(rms, r, s).ws : s \in {t \in Seats : SeatAt(rms, r, t) # Null}}

\* the connections room r holds in any role
MembersAt(rms, r) == SeatedAt(rms, r) \cup SpectatorsAt(rms, r)

\* the seat an explicit request names
ExplicitSeat(requested) == IF requested = <<"A">> THEN "A" ELSE "B"

\* the frames of `out` addressed to connection c
FramesTo(out, c) == SelectSeq(out, LAMBDA f : f.to = c)

(* C1 *)
\* C1: every seat of every room holds at most one occupant, a record for that room
\* and seat; and the occupant of a seat changes only from empty to the connection
\* whose join was just accepted for that room, or from occupied to empty when the
\* close of the occupant's own connection is handled (a join never replaces an
\* occupant).
C1_SeatChangesOnlyByJoinOrOwnClose ==
    /\ [](\A r \in DOMAIN rooms, s \in Seats :
              rooms[r][s] # Null =>
                  /\ rooms[r][s].seat = s
                  /\ rooms[r][s].room = r
                  /\ rooms[r][s].ws \in Conns)
    /\ [][\A r \in RoomIds, s \in Seats :
              LET old == SeatAt(rooms, r, s)
                  new == SeatAt(rooms', r, s)
              IN  old # new =>
                      \/ /\ old = Null
                         /\ last'.op = "join"
                         /\ last'.room = r
                         /\ last'.c = new.ws
                      \/ /\ old # Null
                         /\ new = Null
                         /\ last'.op = "close"
                         /\ last'.c = old.ws]_vars

\* a second join request met an occupied seat and the first occupant is still there
C1_Witness ==
    /\ last.op = "join"
    /\ last.result = "occupied"
    /\ \E s \in Seats :
          /\ last.requested = <<s>>
          /\ SeatAt(rooms, last.room, s) # Null
          /\ SeatAt(rooms, last.room, s).ws # last.c

(* C2 *)
\* C2: a join that names seat A or B of a room where that seat is occupied sends
\* exactly one frame, an error to the requester, changes no room, no spectator
\* set, no occupant record and no roster anyone holds, and leaves the connection
\* open; and the next join of the same connection for a free seat is accepted.
C2_RejectedJoinChangesNothing ==
    [][last'.op = "join" =>
       \A c \in {last'.c}, buffered \in BufferedChoices,
          msg \in {m \in JoinMessages : /\ JoinRoomId(m) = last'.room
                                       /\ JoinRequested(m) = last'.requested} :
          /\ ( /\ JoinRequested(msg) \in {<<"A">>, <<"B">>}
               /\ SeatAt(rooms, JoinRoomId(msg), ExplicitSeat(JoinRequested(msg))) # Null
               /\ Join(c, msg, RandomSuffix(joins), buffered) )
             => /\ Len(JoinSends(c, msg, RandomSuffix(joins), buffered)) = 1
                /\ JoinSends(c, msg, RandomSuffix(joins), buffered)[1].to = c
                /\ JoinSends(c, msg, RandomSuffix(joins), buffered)[1].msg.type = "error"
                /\ rooms' = rooms
                /\ me' = me
                /\ lastRoster' = lastRoster
                /\ readyState'[c] = "OPEN"
          /\ ( /\ last.op = "join"
               /\ last.result = "occupied"
               /\ last.c = c
               /\ JoinRequested(msg) \in {<<"A">>, <<"B">>}
               /\ JoinRoomId(msg) # <<>>
               /\ SeatAt(rooms, JoinRoomId(msg), ExplicitSeat(JoinRequested(msg))) = Null
               /\ Join(c, msg, RandomSuffix(joins), buffered) )
             => /\ me'[c] # Null
                /\ me'[c].ws = c
                /\ SeatAt(rooms', JoinRoomId(msg), ExplicitSeat(JoinRequested(msg)))
                       = me'[c]]_vars

\* an explicit request for a seat that another connection occupies was just rejected
C2_Witness ==
    /\ last.op = "join"
    /\ last.result = "occupied"
    /\ last.requested \in {<<"A">>, <<"B">>}
    /\ readyState[last.c] = "OPEN"
    /\ SeatAt(rooms, last.room, ExplicitSeat(last.requested)).ws # last.c
    /\ SpectatorsAt(rooms, last.room) # {}

(* C3 *)
\* C3: once the close of a connection has been handled, no room holds that
\* connection as occupant of seat A, occupant of seat B or spectator.
C3_ClosedConnectionHoldsNoSlot ==
    \A c \in Conns :
        readyState[c] = "CLOSED" =>
            \A r \in DOMAIN rooms : c \notin MembersAt(rooms, r)

(* C4 *)
\* C4: when the flush timer of an open destination fires and its buffer is not
\* above the congestion threshold, the one or more zones messages pushed for it
\* since the timer was armed produce exactly one frame, sent to that destination
\* and carrying the payload of the latest of those pushes; the slot is then empty
\* and the timer no longer armed. A timer is armed exactly while pushes wait.
C4_WindowDeliversLatestOnce ==
    /\ [](\A to \in Conns : to \in ticking <=> winCount[to] >= 1)
    /\ [][last'.op = "flush" =>
          \A to \in {last'.c}, amount \in BufferedAmounts :
              ( /\ readyState[to] = "OPEN"
                /\ ~(amount > CongestionThreshold)
                /\ Flush(to, amount) )
              => /\ winCount[to] >= 1
                 /\ winLast[to] # Null
                 /\ FlushSends(to, amount) = <<[to |-> to, msg |-> winLast[to]]>>
                 /\ latestZones'[to] = Null
                 /\ to \notin ticking']_vars

\* a flush has just delivered one frame for a window that held MaxWindow pushes
C4_Witness ==
    /\ last.op = "flush"
    /\ last.delivered
    /\ last.pushes = MaxWindow
    /\ readyState[last.c] = "OPEN"
    /\ latestZones[last.c] = Null

C6_MembersHoldCurrentRoster ==
    \A r \in DOMAIN rooms :
        \A c \in MembersAt(rooms, r) :
            readyState[c] = "OPEN" =>
                LET held == lastRoster[c][r].roster
                IN  /\ lastRoster[c][r].sent
                    /\ Len(held) = Cardinality({s \in Seats : rooms[r][s] # Null})
                    /\ \A s \in Seats :
                          rooms[r][s] # Null =>
                              \E i \in 1..Len(held) :
                                  held[i] = [id   |-> rooms[r][s].id,
                                             name |-> rooms[r][s].name,
                                             seat |-> s]
                    /\ \A i \in 1..Len(held) :
                          /\ held[i].seat \in Seats
                          /\ rooms[r][held[i].seat] # Null
                          /\ held[i].id = rooms[r][held[i].seat].id

\* an open spectator of a room that a player has left holds the roster of the
\* one player who remains
C6_Witness ==
    /\ last.op = "close"
    /\ me[last.c] # Null
    /\ \E r \in DOMAIN rooms, c \in Conns :
          /\ c \in SpectatorsAt(rooms, r)
          /\ c \notin SeatedAt(rooms, r)
          /\ readyState[c] = "OPEN"
          /\ me[last.c].room = r
          /\ Len(lastRoster[c][r].roster) = 1

(* C7 *)
\* C7: a zones message from a connection that occupies no seat of any room
\* changes no pending slot, arms no flush timer, and changes no room, occupant
\* record or roster held by anyone.
C7_ZonesFromUnseatedIgnored ==
    [][last'.op = "zones" =>
          \A c \in {last'.c}, input \in ZonesInputs :
              ( /\ \A r \in DOMAIN rooms : c \notin SeatedAt(rooms, r)
                /\ Zones(c, input) )
              => /\ latestZones' = latestZones
                 /\ ticking' = ticking
                 /\ rooms' = rooms
                 /\ me' = me
                 /\ lastRoster' = lastRoster]_vars

\* a spectator of a room whose two seats others occupy has just sent a zones
\* message, and no slot is filled and no timer armed
C7_Witness ==
    /\ last.op = "zones"
    /\ me[last.c] = Null
    /\ \E r \in DOMAIN rooms :
          /\ last.c \in SpectatorsAt(rooms, r)
          /\ SeatAt(rooms, r, "A") # Null
          /\ SeatAt(rooms, r, "B") # Null
          /\ last.c \notin SeatedAt(rooms, r)
    /\ ticking = {}
    /\ \A d \in Conns : latestZones[d] = Null

C9_ReapDeletesExactlyEmptyRooms ==
    [][/\ Reap =>
            /\ DOMAIN rooms' = {r \in DOMAIN rooms : MembersAt(rooms, r) # {}}
            /\ \A r \in DOMAIN rooms' : rooms'[r] = rooms[r]
       /\ ~Reap => DOMAIN rooms \subseteq DOMAIN rooms']_vars

\* a sweep has removed the room a player left while a room with a spectator stays
C9_Witness ==
    /\ last.op = "reap"
    /\ \E c \in Conns :
          /\ readyState[c] = "CLOSED"
          /\ me[c] # Null
          /\ me[c].room \notin DOMAIN rooms
    /\ \E r \in DOMAIN rooms : SeatedAt(rooms, r) = {} /\ SpectatorsAt(rooms, r) # {}

(* C10 *)
\* C10: a join that requests AUTO for a non-blank room is answered with `joined`,
\* never with an error, and takes seat A if it is free, else seat B if it is
\* free, else the spectator role; the other slots of the room stay as they are.
C10_AutoJoinPicksFirstFreeSeat ==
    [][last'.op = "join" =>
       \A c \in {last'.c}, buffered \in BufferedChoices,
          msg \in {m \in JoinMessages : /\ JoinRoomId(m) = last'.room
                                       /\ JoinRequested(m) = last'.requested} :
          ( /\ JoinRequested(msg) = SeatAuto
            /\ JoinRoomId(msg) # <<>>
            /\ Join(c, msg, RandomSuffix(joins), buffered) )
          => LET r   == JoinRoomId(msg)
                 out == JoinSends(c, msg, RandomSuffix(joins), buffered)
             IN  /\ out[1].to = c
                 /\ out[1].msg.type = "joined"
                 /\ IF SeatAt(rooms, r, "A") = Null
                    THEN /\ SeatAt(rooms', r, "A") # Null
                         /\ SeatAt(rooms', r, "A").ws = c
                         /\ me'[c] = SeatAt(rooms', r, "A")
                         /\ out[1].msg.seat = "A"
                         /\ SeatAt(rooms', r, "B") = SeatAt(rooms, r, "B")
                         /\ SpectatorsAt(rooms', r) = SpectatorsAt(rooms, r)
                    ELSE IF SeatAt(rooms, r, "B") = Null
                    THEN /\ SeatAt(rooms', r, "B") # Null
                         /\ SeatAt(rooms', r, "B").ws = c
                         /\ me'[c] = SeatAt(rooms', r, "B")
                         /\ out[1].msg.seat = "B"
                         /\ SeatAt(rooms', r, "A") = SeatAt(rooms, r, "A")
                         /\ SpectatorsAt(rooms', r) = SpectatorsAt(rooms, r)
                    ELSE /\ SpectatorsAt(rooms', r) = SpectatorsAt(rooms, r) \cup {c}
                         /\ out[1].msg.role = "spectator"
                         /\ me' = me
                         /\ SeatAt(rooms', r, "A") = SeatAt(rooms, r, "A")
                         /\ SeatAt(rooms', r, "B") = SeatAt(rooms, r, "B")]_vars

\* three connections joined one room: the first sits in A, the second in B, and
\* the third, asking for AUTO, has just become a spectator
C10_Witness ==
    /\ last.op = "join"
    /\ last.requested = SeatAuto
    /\ last.result = "spectator"
    /\ last.c = ConnOrder[3]
    /\ SeatAt(rooms, last.room, "A") # Null
    /\ SeatAt(rooms, last.room, "A").ws = ConnOrder[1]
    /\ SeatAt(rooms, last.room, "B") # Null
    /\ SeatAt(rooms, last.room, "B").ws = ConnOrder[2]
    /\ SpectatorsAt(rooms, last.room) = {ConnOrder[3]}

(* C11 *)
\* C11: a join that names a room and explicitly requests seat A or B is answered
\* `joined` if and only if that seat of the room is free when the request is
\* handled; when it is, the requester becomes the occupant of the requested seat
\* and of no other slot of the room (the other seat and the spectators stay as
\* they are), and when it is not, no seat of the room changes.
C11_ExplicitJoinSucceedsIffSeatFree ==
    [][(/\ last'.op = "join"
        /\ last'.requested \in {<<"A">>, <<"B">>}
        /\ last'.room # <<>>) =>
          \A c \in {last'.c}, buffered \in BufferedChoices,
             msg \in {m \in JoinMessages : /\ JoinRoomId(m) = last'.room
                                           /\ JoinRequested(m) = last'.requested} :
              Join(c, msg, RandomSuffix(joins), buffered)
              => LET r     == JoinRoomId(msg)
                     s     == ExplicitSeat(JoinRequested(msg))
                     o     == IF s = "A" THEN "B" ELSE "A"
                     free  == SeatAt(rooms, r, s) = Null
                     reply == FramesTo(JoinSends(c, msg, RandomSuffix(joins), buffered), c)[1].msg
                 IN  /\ (reply.type = "joined") <=> free
                     /\ (last'.result = "seated") <=> free
                     /\ SeatAt(rooms', r, o) = SeatAt(rooms, r, o)
                     /\ SpectatorsAt(rooms', r) = SpectatorsAt(rooms, r)
                     /\ free => /\ SeatAt(rooms', r, s) # Null
                                /\ SeatAt(rooms', r, s).ws = c
                                /\ SeatAt(rooms', r, s).seat = s
                                /\ reply.seat = s
                                /\ me'[c] = SeatAt(rooms', r, s)
                     /\ ~free => /\ SeatAt(rooms', r, s) = SeatAt(rooms, r, s)
                                 /\ reply.type = "error"
                                 /\ me' = me]_vars

\* an explicit request for seat B has just been accepted in a room whose seat A
\* another connection occupies
C11_Witness ==
    /\ last.op = "join"
    /\ last.requested = <<"B">>
    /\ last.result = "seated"
    /\ SeatAt(rooms, last.room, "B") # Null
    /\ SeatAt(rooms, last.room, "B").ws = last.c
    /\ SeatAt(rooms, last.room, "A") # Null
    /\ SeatAt(rooms, last.room, "A").ws # last.c

(* C12 *)
\* C12: a join that names a room and whose seat request is SPECTATOR, or anything
\* else than A, B or AUTO (a missing seat included), is answered `joined` with
\* role spectator whatever the seats of the room hold: the connection is in the
\* room's spectator set afterwards, no other spectator is added or removed, seats
\* A and B are as before, and no occupant record changes.
C12_SpectatorJoinAlwaysSucceeds ==
    [][(/\ last'.op = "join"
        /\ last'.requested \notin {<<"A">>, <<"B">>, SeatAuto}
        /\ last'.room # <<>>) =>
          \A c \in {last'.c}, buffered \in BufferedChoices,
             msg \in {m \in JoinMessages : /\ JoinRoomId(m) = last'.room
                                           /\ JoinRequested(m) = last'.requested} :
              Join(c, msg, RandomSuffix(joins), buffered)
              => LET r     == JoinRoomId(msg)
                     reply == FramesTo(JoinSends(c, msg, RandomSuffix(joins), buffered), c)[1].msg
                 IN  /\ last'.result = "spectator"
                     /\ reply.type = "joined"
                     /\ reply.role = "spectator"
                     /\ reply.room = r
                     /\ r \in DOMAIN rooms'
                     /\ SpectatorsAt(rooms', r) = SpectatorsAt(rooms, r) \cup {c}
                     /\ \A s \in Seats : SeatAt(rooms', r, s) = SeatAt(rooms, r, s)
                     /\ me' = me]_vars

\* a SPECTATOR request has just been accepted in a room whose two seats are
\* occupied by other connections
C12_Witness ==
    /\ last.op = "join"
    /\ last.requested = SeatSpectator
    /\ last.result = "spectator"
    /\ last.c \in SpectatorsAt(rooms, last.room)
    /\ \A s \in Seats : /\ SeatAt(rooms, last.room, s) # Null
                        /\ SeatAt(rooms, last.room, s).ws # last.c

(* C13 *)
\* C13: every create request is answered with a room id that no earlier create
\* request of the run was answered with, whatever joins, closes and reap sweeps
\* happen between the requests.
C13_CreatedIdsAreDistinct ==
    [][last'.op = "create" => last'.room \notin created]_vars

(* C14 *)
\* C14: a flush whose destination buffers more than the congestion threshold
\* sends nothing; and the frames of the connection, create and join handlers do
\* not depend on anyone's buffered amount: the new connection is sent hello, the
\* creator created, the joiner its joined or error reply, and the roster of a
\* join goes to every open member of the room.
C14_OnlyZonesAreDroppedOnCongestion ==
    [][/\ last'.op = "flush" =>
             \A amount \in BufferedAmounts :
                 (amount > CongestionThreshold /\ Flush(last'.c, amount))
                 => FlushSends(last'.c, amount) = <<>> /\ ~last'.delivered
       /\ last'.op = "connect" =>
             \A buffered \in BufferedChoices :
                 ConnectSends(last'.c, buffered)
                     = <<[to |-> last'.c, msg |-> [type |-> "hello"]]>>
       /\ last'.op = "create" =>
             \A buffered \in BufferedChoices :
                 CreateSends(last'.c, last'.room, buffered)
                     = <<[to |-> last'.c,
                          msg |-> [type |-> "created", room |-> last'.room]]>>
       /\ last'.op = "join" =>
             \A c \in {last'.c}, buffered \in BufferedChoices,
                msg \in {m \in SendJoinMessages : /\ JoinRoomId(m) = last'.room
                                                  /\ JoinRequested(m) = last'.requested} :
                 Join(c, msg, RandomSuffix(joins), buffered)
                 => LET out == JoinSends(c, msg, RandomSuffix(joins), buffered)
                    IN  /\ out = JoinSends(c, msg, RandomSuffix(joins), Uncongested)
                        /\ out[1].to = c
                        /\ out[1].msg.type
                               = IF last'.result \in {"required", "occupied"}
                                 THEN "error" ELSE "joined"
                        /\ last'.result \in {"seated", "spectator"} =>
                              \A d \in MembersAt(rooms', last'.room) :
                                  readyState[d] = "OPEN" =>
                                      \E i \in 2..Len(out) :
                                          /\ out[i].to = d
                                          /\ out[i].msg.type = "roster"]_vars

\* the flush of an open destination that held a pushed payload was just skipped,
\* because the destination was congested
C14_Witness ==
    /\ last.op = "flush"
    /\ ~last.delivered
    /\ last.pushes >= 1
    /\ readyState[last.c] = "OPEN"

(* C15 *)
\* C15: right after the close of a connection is handled its pending slot is
\* empty and no flush timer is armed for it; and no later zones message fills the
\* slot or arms the timer of a connection that is closed.
C15_CloseReleasesSlotAndTimer ==
    [][/\ last'.op = "close" =>
             /\ latestZones'[last'.c] = Null
             /\ last'.c \notin ticking'
       /\ last'.op = "zones" =>
             \A d \in Conns :
                 readyState[d] = "CLOSED" =>
                     /\ latestZones'[d] = latestZones[d]
                     /\ d \in ticking' <=> d \in ticking]_vars

(* C16 *)
\* C16: an inbound frame that JSON.parse rejects, or that parses to a value whose
\* type is none of create, join and zones (JSON null, a number, a string, an
\* array, an object of another type), is ignored: the handler returns, no room,
\* occupant record, pending slot, timer or held roster changes, and the
\* connection stays open.
C16_UnroutedFrameIsIgnored ==
    [][(/\ last'.op \in {"ignored", "uncaught"}
        /\ last'.kind \in IgnoredFrames \cup {"null"}) =>
          /\ last'.op = "ignored"
          /\ readyState' = readyState
          /\ readyState'[last'.c] = "OPEN"
          /\ UNCHANGED <<me, rooms, roomOrder, latestZones, ticking, lastRoster>>]_vars

(* C17 *)
\* C17: whatever frame a client sends, the message handler ends without an
\* uncaught error, and the frame closes no connection other than (at most) the
\* sender's own.
C17_NoFrameThrows ==
    [][last'.op # "uncaught"
       /\ (last'.op \in {"ignored", "join", "create", "zones"} =>
              \A d \in Conns \ {last'.c} : readyState'[d] = readyState[d])]_vars

(* C18 *)
\* C18: a heartbeat sweep leaves open every open connection whose pong was
\* processed since the sweep before (or that no sweep has probed yet), whatever
\* it sent in between; and a connection is only ever terminated by a sweep that
\* finds its previous probe unanswered.
C18_AnsweringConnectionSurvives ==
    [][/\ last'.op = "heartbeat" =>
             \A c \in Conns :
                 (readyState[c] = "OPEN" /\ unanswered[c] = 0) =>
                     /\ readyState'[c] = "OPEN"
                     /\ unanswered'[c] = 1
       /\ \A c \in Conns :
             (readyState[c] = "OPEN" /\ readyState'[c] = "CLOSING") =>
                 /\ last'.op = "heartbeat"
                 /\ unanswered[c] >= 1]_vars

\* a sweep has just terminated the second connection, probed twice without an
\* answer, and left open the first one, which was accepted earlier and answered
C18_Witness ==
    /\ last.op = "heartbeat"
    /\ readyState["c1"] = "OPEN"
    /\ unanswered["c1"] = 1
    /\ readyState["c2"] = "CLOSING"
    /\ unanswered["c2"] = 2
    /\ me["c1"] # Null

(* C19 *)
\* C19: a join that names a non-blank room id the registry does not hold (never
\* created, or created and reaped since) is answered `joined`: the room is in the
\* registry afterwards and holds the joiner alone, in the requested seat for an
\* explicit request, in seat A for AUTO, and as its only spectator otherwise.
C19_JoinCreatesMissingRoom ==
    [][(/\ last'.op = "join"
        /\ last'.room # <<>>
        /\ last'.room \notin DOMAIN rooms) =>
          \A c \in {last'.c}, buffered \in BufferedChoices,
             msg \in {m \in RegistryJoinMessages : /\ JoinRoomId(m) = last'.room
                                                   /\ JoinRequested(m) = last'.requested} :
              Join(c, msg, RandomSuffix(joins), buffered)
              => LET r     == JoinRoomId(msg)
                     req   == JoinRequested(msg)
                     reply == FramesTo(JoinSends(c, msg, RandomSuffix(joins), buffered), c)[1].msg
                     seat  == IF req = <<"B">> THEN "B" ELSE "A"
                 IN  /\ ~last'.existed
                     /\ reply.type = "joined"
                     /\ r \in DOMAIN rooms'
                     /\ MembersAt(rooms', r) = {c}
                     /\ IF req \in {<<"A">>, <<"B">>, SeatAuto}
                        THEN /\ last'.result = "seated"
                             /\ SeatAt(rooms', r, seat) # Null
                             /\ SeatAt(rooms', r, seat).ws = c
                             /\ reply.seat = seat
                             /\ SeatAt(rooms', r, IF seat = "A" THEN "B" ELSE "A") = Null
                             /\ SpectatorsAt(rooms', r) = {}
                        ELSE /\ last'.result = "spectator"
                             /\ SeatedAt(rooms', r) = {}
                             /\ SpectatorsAt(rooms', r) = {c}]_vars

\* an AUTO join has just taken seat A of a room whose id a create request had
\* returned and that the reaper had deleted before the join
C19_Witness ==
    /\ last.op = "join"
    /\ ~last.existed
    /\ last.room \in created
    /\ last.requested = SeatAuto
    /\ last.result = "seated"
    /\ SeatAt(rooms, last.room, "A") # Null
    /\ SeatAt(rooms, last.room, "A").ws = last.c

(* C20 *)
\* C20: the connection handler sends hello to the new connection as its first
\* frame; no handler processes a message of, and no handler or timer sends a
\* frame to, a connection that has not been accepted and greeted; and the first
\* frame an accepted join sends to the joiner is its joined reply, followed by
\* the roster of the room, which lists the joiner under its seat when it took one.
C20_HelloFirstAndJoinedBeforeRoster ==
    [][/\ last'.op = "connect" =>
             /\ readyState[last'.c] = "NONE"
             /\ me[last'.c] = Null
             /\ lastRoster[last'.c] = NoRosters
             /\ latestZones[last'.c] = Null
             /\ \A buffered \in BufferedChoices :
                   /\ Len(ConnectSends(last'.c, buffered)) = 1
                   /\ ConnectSends(last'.c, buffered)[1]
                          = [to |-> last'.c, msg |-> [type |-> "hello"]]
       /\ last'.op \in {"create", "join", "zones"} => readyState[last'.c] = "OPEN"
       /\ last'.op = "zones" =>
             \A d \in Conns : latestZones'[d] # Null => readyState[d] # "NONE"
       /\ last'.op = "join" =>
             \A c \in {last'.c}, buffered \in BufferedChoices,
                msg \in {m \in SendJoinMessages : /\ JoinRoomId(m) = last'.room
                                                  /\ JoinRequested(m) = last'.requested} :
                 Join(c, msg, RandomSuffix(joins), buffered)
                 => LET out == JoinSends(c, msg, RandomSuffix(joins), buffered)
                        got == FramesTo(out, c)
                    IN  /\ \A i \in 1..Len(out) : readyState[out[i].to] = "OPEN"
                        /\ last'.result \in {"seated", "spectator"} =>
                              /\ Len(got) >= 2
                              /\ got[1].msg.type = "joined"
                              /\ \A i \in 2..Len(got) :
                                    /\ got[i].msg.type = "roster"
                                    /\ got[i].msg.room = last'.room
                                    /\ last'.result = "seated" =>
                                          \E k \in 1..Len(got[i].msg.roster) :
                                              /\ got[i].msg.roster[k].id = got[1].msg.id
                                              /\ got[i].msg.roster[k].seat
                                                     = got[1].msg.seat]_vars

\* a connection has just taken seat A of a room that another connection was
\* watching: it holds the roster of the room, whose one entry is its own
C20_Witness ==
    /\ last.op = "join"
    /\ last.result = "seated"
    /\ me[last.c] # Null
    /\ me[last.c].seat = "A"
    /\ SpectatorsAt(rooms, last.room) \ {last.c} # {}
    /\ lastRoster[last.c][last.room].sent
    /\ Len(lastRoster[last.c][last.room].roster) = 1
    /\ lastRoster[last.c][last.room].roster[1].id = me[last.c].id

C22_SlotFilledIffTimerArmed ==
    \A c \in Conns :
        /\ timers[c] <= 1
        /\ c \in ticking <=> timers[c] = 1
        /\ latestZones[c] # Null <=> timers[c] = 1

\* a destination has been pushed to MaxWindow times inside one window and has one
\* timer pending
C22_Witness ==
    \E c \in Conns :
        /\ winCount[c] = MaxWindow
        /\ timers[c] = 1
        /\ latestZones[c] # Null
        /\ readyState[c] = "OPEN"

(* C23 *)
\* C23: each firing of a destination's flush timer uses up one pending timer,
\* sends at most one frame, to that destination and holding the payload of its
\* slot, and leaves the slot empty; and no other handler sends a zones frame. So
\* a payload is delivered to a destination at most once, and a destination gets
\* no more zones frames than timers were set for it.
C23_FlushSendsAtMostOnceAndClears ==
    [][/\ last'.op = "flush" =>
             \A amount \in BufferedAmounts :
                 Flush(last'.c, amount) =>
                     /\ timers[last'.c] >= 1
                     /\ timers'[last'.c] = timers[last'.c] - 1
                     /\ Len(FlushSends(last'.c, amount)) <= 1
                     /\ \A i \in 1..Len(FlushSends(last'.c, amount)) :
                           /\ FlushSends(last'.c, amount)[i].to = last'.c
                           /\ FlushSends(last'.c, amount)[i].msg = latestZones[last'.c]
                     /\ latestZones'[last'.c] = Null
       /\ last'.op = "join" =>
             \A buffered \in BufferedChoices,
                msg \in {m \in SendJoinMessages : /\ JoinRoomId(m) = last'.room
                                                  /\ JoinRequested(m) = last'.requested} :
                 LET out == JoinSends(last'.c, msg, RandomSuffix(joins), buffered)
                 IN  \A i \in 1..Len(out) : out[i].msg.type # "zones"
       /\ last'.op = "create" =>
             \A buffered \in BufferedChoices :
                 \A i \in 1..Len(CreateSends(last'.c, last'.room, buffered)) :
                     CreateSends(last'.c, last'.room, buffered)[i].msg.type # "zones"
       /\ last'.op \notin {"flush", "zones"} =>
             /\ latestZones' = latestZones
             /\ timers' = timers]_vars

\* the timer of an open destination that was pushed to once has just fired and
\* delivered: no timer is pending for it and its slot is empty
C23_Witness ==
    /\ last.op = "flush"
    /\ last.delivered
    /\ last.pushes = 1
    /\ timers[last.c] = 0
    /\ latestZones[last.c] = Null
    /\ readyState[last.c] = "OPEN"

(* C24 *)
\* C24: the firing of a destination's flush timer sends that destination the
\* payload of its own slot exactly when it is open and not congested itself,
\* whatever the readyState and buffered amount of every other socket; it changes
\* the slot, timer and readyState of no other destination; and a zones message
\* fills the slot of each of its destinations whatever state the others are in.
C24_FlushIndependentPerDestination ==
    [][/\ last'.op = "flush" =>
             \A to \in {last'.c}, amount \in BufferedAmounts :
                 Flush(to, amount) =>
                     /\ \A buffered \in [Conns -> {0, CongestionThreshold + 1}],
                           rs \in [Conns -> {"OPEN", "CLOSED"}] :
                            (latestZones[to] # Null /\ buffered[to] = amount
                                 /\ rs[to] = readyState[to] /\ amount # CongestionThreshold)
                            => Send(<<>>, rs, buffered, to, latestZones[to], TRUE)
                                   = FlushSends(to, amount)
                     /\ (FlushSends(to, amount) # <<>>) <=>
                            /\ latestZones[to] # Null
                            /\ readyState[to] = "OPEN"
                            /\ ~(amount > CongestionThreshold)
                     /\ \A d \in Conns \ {to} :
                           /\ latestZones'[d] = latestZones[d]
                           /\ timers'[d] = timers[d]
                           /\ readyState'[d] = readyState[d]
       /\ last'.op = "zones" =>
             \A d \in ZonesDests(last'.c) :
                 /\ latestZones'[d] # Null
                 /\ latestZones'[d].fromSeat = me[last'.c].seat
                 /\ timers'[d] = 1]_vars

\* the flush of one destination has just been skipped because that destination
\* is congested, while another destination of the same push still has its
\* payload and its timer pending
C24_Witness ==
    /\ last.op = "flush"
    /\ ~last.delivered
    /\ readyState[last.c] = "OPEN"
    /\ \E d \in Conns \ {last.c} :
          /\ readyState[d] = "OPEN"
          /\ latestZones[d] # Null
          /\ timers[d] = 1

\* the memberships of connection c: the <<room, role>> pairs the rooms Map rms holds it in
Memberships(rms, c) ==
    {p \in (DOMAIN rms) \X {"A", "B", "SPECTATOR"} :
        IF p[2] = "SPECTATOR" THEN c \in SpectatorsAt(rms, p[1])
        ELSE SeatAt(rms, p[1], p[2]) # Null /\ SeatAt(rms, p[1], p[2]).ws = c}

(* C25 *)
\* C25: whatever joins it has sent, a connection is held by at most one room, in
\* at most one role (seat A, seat B or spectator).
C25_AtMostOneMembership ==
    \A c \in Conns : Cardinality(Memberships(rooms, c)) <= 1

(* C26 *)
\* C26: a zones message is never pushed to the connection that sent it: the
\* sender is not among the destinations of its own message, and handling the
\* message leaves the sender's own slot and timer as they were.
C26_ZonesNeverPushedToSender ==
    [][last'.op = "zones" =>
           /\ last'.c \notin ZonesDests(last'.c)
           /\ latestZones'[last'.c] = latestZones[last'.c]
           /\ timers'[last'.c] = timers[last'.c]]_vars

(* C27 *)
\* C27: the slot is keyed by the destination alone: a zones message replaces the
\* payload waiting for each of its destinations, also when that payload came from
\* the other seat, and the flush of a destination sends at most one frame, which
\* carries the payload of the push that arrived last in the window.
C27_SpectatorGetsOnlyLaterSender ==
    [][/\ (last'.op = "zones" /\ me[last'.c] # Null) =>
             \E input \in ZonesInputs :
                 \A d \in ZonesDests(last'.c) :
                     /\ latestZones'[d] = ZonesPayload(last'.c, input)
                     /\ winLast'[d] = latestZones'[d]
                     /\ timers'[d] = 1
       /\ last'.op = "flush" =>
             /\ latestZones'[last'.c] = Null
             /\ \A amount \in BufferedAmounts :
                   LET sent == FlushSends(last'.c, amount)
                   IN  /\ Len(sent) <= 1
                       /\ \A i \in 1..Len(sent) :
                             sent[i].to = last'.c /\ sent[i].msg = winLast[last'.c]]_vars

\* a seat has just sent a zones message to a spectator of its room for whom a
\* payload of the other seat, sent by another connection, was waiting: the
\* spectator's slot now holds the later sender's payload, second of its window
C27_Witness ==
    /\ last.op = "zones"
    /\ me[last.c] # Null
    /\ \E d \in last.over :
          /\ d \in SpectatorsAt(rooms, me[last.c].room)
          /\ d \notin SeatedAt(rooms, me[last.c].room)
          /\ readyState[d] = "OPEN"
          /\ latestZones[d] # Null
          /\ latestZones[d].fromSeat = me[last.c].seat
          /\ winCount[d] = 2
          /\ timers[d] = 1
          /\ SeatAt(rooms, me[last.c].room, OtherSeat(me[last.c].seat)) # Null
          /\ SeatAt(rooms, me[last.c].room, OtherSeat(me[last.c].seat)).ws \notin {last.c, d}

(* C28 *)
\* C28: for every open connection that has an occupant record, the registry
\* contains the record's room and the seat the record names holds exactly that
\* record; so the room of an open seated connection is never empty, the reaper
\* never deletes it, and a zones message of the connection finds its room.
C28_OpenOccupantRecordIsSeated ==
    \A c \in Conns :
        (readyState[c] = "OPEN" /\ me[c] # Null) =>
            /\ me[c].room \in DOMAIN rooms
            /\ SeatAt(rooms, me[c].room, me[c].seat) = me[c]
            /\ me[c].ws = c
            /\ c \in MembersAt(rooms, me[c].room)

\* a sweep has just deleted the room a closed player had left, while the room in
\* which an open connection sits alone, after several joins, is still there
C28_Witness ==
    /\ last.op = "reap"
    /\ \E c \in Conns :
          /\ readyState[c] = "OPEN"
          /\ me[c] # Null
          /\ MembersAt(rooms, me[c].room) = {c}
          /\ Cardinality(Memberships(rooms, c)) = 1
    /\ \E d \in Conns :
          /\ readyState[d] = "CLOSED"
          /\ me[d] # Null
          /\ me[d].room \notin DOMAIN rooms

\* every frame of `out` is addressed to a socket that is OPEN in rs
OnlyToOpen(out, rs) == \A i \in 1..Len(out) : rs[out[i].to] = "OPEN"

(* C29 *)
\* C29: no frame of any type is sent to a connection that is not open: the hello,
\* the reply and the roster of a join, the roster of a close and the payload of a
\* flush go to open sockets only; a flush that fires after its destination closed
\* sends nothing and only empties the slot and retires the timer. The frames are
\* those of sockets with nothing buffered, when no frame is skipped for congestion.
C29_NothingSentToNonOpen ==
    [][/\ last'.op = "connect" =>
             OnlyToOpen(ConnectSends(last'.c, Uncongested), readyState')
       /\ last'.op = "join" =>
             \A msg \in {m \in RelayJoinMessages : /\ JoinRoomId(m) = last'.room
                                                   /\ JoinRequested(m) = last'.requested} :
                 OnlyToOpen(JoinSends(last'.c, msg, RandomSuffix(joins), Uncongested),
                            readyState)
       /\ last'.op = "close" =>
             OnlyToOpen(CloseSends(last'.c, Uncongested), readyState')
       /\ last'.op = "flush" =>
             /\ OnlyToOpen(FlushSends(last'.c, 0), readyState)
             /\ readyState[last'.c] # "OPEN" =>
                   /\ FlushSends(last'.c, 0) = <<>>
                   /\ ~last'.delivered
                   /\ latestZones'[last'.c] = Null
                   /\ timers'[last'.c] = timers[last'.c] - 1
                   /\ rooms' = rooms
                   /\ lastRoster' = lastRoster
       /\ last'.op = "zones" => lastRoster' = lastRoster]_vars

\* the flush timer of a destination has just fired after the destination closed
\* with a payload waiting: nothing was sent and the slot is empty
C29_Witness ==
    /\ last.op = "flush"
    /\ readyState[last.c] = "CLOSED"
    /\ last.pushes >= 1
    /\ ~last.delivered
    /\ latestZones[last.c] = Null
    /\ timers[last.c] = 0

(* C30 *)
\* C30: a join whose room id is missing, or blank once trimmed, is answered with
\* the single frame error "room required", sent to the requester; it creates no
\* room, changes no seat, no spectator set and no occupant record, and no roster
\* is sent to anyone.
C30_BlankRoomJoinChangesNothing ==
    [][last'.op = "join" =>
          \A c \in {last'.c}, buffered \in BufferedChoices,
             msg \in {m \in JoinMessages : /\ JoinRoomId(m) = last'.room
                                           /\ JoinRequested(m) = last'.requested
                                           /\ (m.room = Undefined \/ Trim(m.room) = <<>>)} :
              Join(c, msg, RandomSuffix(joins), buffered)
              => /\ last'.result = "required"
                 /\ JoinSends(c, msg, RandomSuffix(joins), buffered)
                        = <<[to |-> c, msg |-> [type |-> "error", reason |-> "room required"]]>>
                 /\ rooms' = rooms
                 /\ roomOrder' = roomOrder
                 /\ me' = me
                 /\ lastRoster' = lastRoster]_vars

\* a seated connection, in a room another connection watches, has just sent a
\* join without a room id: it was refused and still holds its seat
C30_Witness ==
    /\ last.op = "join"
    /\ last.room = <<>>
    /\ last.result = "required"
    /\ me[last.c] # Null
    /\ SeatAt(rooms, me[last.c].room, me[last.c].seat) = me[last.c]
    /\ SpectatorsAt(rooms, me[last.c].room) \ {last.c} # {}
    /\ <<>> \notin DOMAIN rooms

====
